---- MODULE Spec2Model ----
(***************************************************************************)
(* Model of src/hammdist.c: the SQLite scalar function hamming_distance.   *)
(*                                                                         *)
(* hamming_distance_sql (the host binding) and hamming_distance_blob (the  *)
(* distance engine) are modelled statement by statement.  A blob is kept   *)
(* as an explicit head of bytes followed by a run of one repeated byte, so *)
(* that blobs as long as SQLite allows (up to 10^9 bytes by default) can   *)
(* be inputs.  The C int is 32 bits wide; an uint64_t is kept as eight     *)
(* 8-bit limbs, least significant first, because it does not fit the       *)
(* model checker's integers.                                               *)
(***************************************************************************)
EXTENDS Integers, Sequences, FiniteSets, TLC

\* ------------------------------------------------------------------ bounds
MaxHead == 1                \* longest explicit head of a blob
WideLen == 268435456        \* length of the long run (2^28 bytes)
SlowSteps == 12             \* iterations at the end of a run taken one by one
MaxArgc == 3                \* largest argument count the host passes

HeadVals == {16, 176}       \* 0x10, 0xB0
FillVals == {0, 255}        \* 0x00, 0xFF
FillLens == {0, 7, 8, WideLen}

\* ------------------------------------------------- program constants, types
FastLen == 8
INT_MAX == 2147483647
INT_MIN == (-INT_MAX) - 1

Limbs == 1..8

Min2(m, n) == IF m < n THEN m ELSE n
Max2(m, n) == IF m > n THEN m ELSE n

\* ------------------------------------------------------- bit operations
RECURSIVE BitXor(_, _, _)
\* x ^ y on w-bit unsigned operands
BitXor(x, y, w) ==
    IF w = 0 THEN 0
    ELSE ((x + y) % 2) + 2 * BitXor(x \div 2, y \div 2, w - 1)

RECURSIVE BitAnd(_, _, _)
\* x & y on w-bit unsigned operands
BitAnd(x, y, w) ==
    IF w = 0 THEN 0
    ELSE ((x % 2) * (y % 2)) + 2 * BitAnd(x \div 2, y \div 2, w - 1)

RECURSIVE BitOr(_, _, _)
BitOr(x, y, w) ==
    IF w = 0 THEN 0
    ELSE (IF (x % 2) + (y % 2) > 0 THEN 1 ELSE 0) + 2 * BitOr(x \div 2, y \div 2, w - 1)

RECURSIVE BuiltinPopcount(_)
\* __builtin_popcount on an unsigned value: its number of 1-bits
BuiltinPopcount(x) ==
    IF x = 0 THEN 0 ELSE (x % 2) + BuiltinPopcount(x \div 2)

RECURSIVE SumLimbs(_, _)
SumLimbs(x, k) == IF k = 0 THEN 0 ELSE BuiltinPopcount(x[k]) + SumLimbs(x, k - 1)

\* __builtin_popcountll on an uint64_t
BuiltinPopcountll(x) == SumLimbs(x, 8)

\* --------------------------------------------- uint64_t as eight 8-bit limbs
\* the eight limbs f[1], ..., f[8], least significant first
U64Of(f) == <<f[1], f[2], f[3], f[4], f[5], f[6], f[7], f[8]>>

U64Const(byte) == U64Of([k \in Limbs |-> byte])

U64Xor(x, y) == U64Of([k \in Limbs |-> BitXor(x[k], y[k], 8)])

U64And(x, y) == U64Of([k \in Limbs |-> BitAnd(x[k], y[k], 8)])

LimbAt(x, k) == IF k \in Limbs THEN x[k] ELSE 0

\* x >> n, 0 <= n < 64
U64Shr(x, n) ==
    LET q == n \div 8
        r == n % 8
    IN  U64Of([k \in Limbs |->
                (LimbAt(x, k + q) \div (2 ^ r))
                + (LimbAt(x, k + q + 1) % (2 ^ r)) * (2 ^ (8 - r))])

RECURSIVE CarryIn(_, _, _)
CarryIn(x, y, k) ==
    IF k = 1 THEN 0
    ELSE (x[k - 1] + y[k - 1] + CarryIn(x, y, k - 1)) \div 256

\* x + y modulo 2^64
U64Add(x, y) == U64Of([k \in Limbs |-> (x[k] + y[k] + CarryIn(x, y, k)) % 256])

RECURSIVE BorrowIn(_, _, _)
BorrowIn(x, y, k) ==
    IF k = 1 THEN 0
    ELSE IF x[k - 1] - y[k - 1] - BorrowIn(x, y, k - 1) < 0 THEN 1 ELSE 0

\* x - y modulo 2^64
U64Sub(x, y) == U64Of([k \in Limbs |-> (256 + x[k] - y[k] - BorrowIn(x, y, k)) % 256])

RECURSIVE Column(_, _, _, _)
\* sum of x[i] * y[k + 1 - i] for i in 1..j
Column(x, y, k, j) ==
    IF j = 0 THEN 0 ELSE x[j] * y[k + 1 - j] + Column(x, y, k, j - 1)

RECURSIVE MulCarry(_, _, _)
MulCarry(x, y, k) ==
    IF k = 1 THEN 0
    ELSE (Column(x, y, k - 1, k - 1) + MulCarry(x, y, k - 1)) \div 256

\* x * y modulo 2^64
U64Mul(x, y) == U64Of([k \in Limbs |-> (Column(x, y, k, k) + MulCarry(x, y, k)) % 256])

\* (int) of an uint64_t that fits 8 bits
U64ToInt(x) == x[1]

\* a wrong fallback: the last shift by 48
SwarPopcountShift48(x0) ==
    LET x1 == U64Sub(x0, U64And(U64Shr(x0, 1), U64Const(85)))
        x2 == U64Add(U64And(x1, U64Const(51)), U64And(U64Shr(x1, 2), U64Const(51)))
        x3 == U64And(U64Add(x2, U64Shr(x2, 4)), U64Const(15))
    IN  U64ToInt(U64Shr(U64Mul(x3, U64Const(1)), 48))

\* the portable fallback of popcount_u64
SwarPopcount(x0) ==
    LET x1 == U64Sub(x0, U64And(U64Shr(x0, 1), U64Const(85)))
        x2 == U64Add(U64And(x1, U64Const(51)), U64And(U64Shr(x1, 2), U64Const(51)))
        x3 == U64And(U64Add(x2, U64Shr(x2, 4)), U64Const(15))
    IN  U64ToInt(U64Shr(U64Mul(x3, U64Const(1)), 56))

popcount_u64(x, impl) ==
    IF impl = "builtin" THEN BuiltinPopcountll(x) ELSE SwarPopcount(x)

\* ------------------------------------------------------------ blobs, values
\* A blob: the bytes of head, then n copies of the byte fill.
RECURSIVE Heads(_)
Heads(n) ==
    IF n = 0 THEN {<<>>}
    ELSE Heads(n - 1) \cup {Append(h, v) : h \in {g \in Heads(n - 1) : Len(g) = n - 1}, v \in HeadVals}

Blobs ==
    {[type |-> "blob", head |-> h, fill |-> 0, n |-> 0] : h \in Heads(MaxHead)}
    \cup {[type |-> "blob", head |-> h, fill |-> f, n |-> m] :
            h \in Heads(MaxHead), f \in FillVals, m \in FillLens \ {0}}

NullValue == [type |-> "null", head |-> <<>>, fill |-> 0, n |-> 0]

Values == Blobs \cup {NullValue}

BlobLen(v) == Len(v.head) + v.n

\* the byte at 0-based index i < BlobLen(v)
BlobByte(v, i) == IF i < Len(v.head) THEN v.head[i + 1] ELSE v.fill

\* p[i] for a pointer p to the data of a blob
Deref(p, i) == BlobByte(p, i)

\* sqlite3_value_blob: the data of a blob; NULL for SQL NULL and for a
\* zero-length blob
sqlite3_value_blob(v) ==
    IF v.type = "null" \/ BlobLen(v) = 0 THEN NullValue ELSE v

\* sqlite3_value_bytes: the length of a blob; 0 for SQL NULL
sqlite3_value_bytes(v) == IF v.type = "null" THEN 0 ELSE BlobLen(v)

IsNullPtr(p) == p.type = "null"

\* ------------------------------------------------------------------ builds
\* What the source leaves to the build: the byte order memcpy gives x and y,
\* the branch of popcount_u64 the preprocessor keeps, and what an int
\* overflow (undefined) does: two's complement wrap, or a trap (-ftrapv).
Builds ==
    {[order |-> o, popcnt |-> p, overflow |-> w] :
        o \in {"little", "big"}, p \in {"builtin", "swar"}, w \in {"wrap", "trap"}}
    \ {[order |-> "big", popcnt |-> "builtin", overflow |-> w] : w \in {"wrap", "trap"}}

\* ------------------------------------------------------------------- state
VARIABLES
    build,      \* the build (fixed)
    entry,      \* "sql": the host calls hamming_distance_sql;
                \* "blob": hamming_distance_blob is called on its own
    argc, argv, \* the arguments of hamming_distance_sql
    pc,         \* position in the code
    a, b,       \* pointers to the data (a blob, or NullValue for NULL)
    alen, blen,
    len, diff, i,
    ret,        \* return value of hamming_distance_blob: <<>> or <<int>>
    result,     \* result set on ctx
    round,      \* 1; 2 for the call with the operands swapped
    first,      \* ret of round 1
    hist        \* what the call has done so far (not program state)

vars == <<build, entry, argc, argv, pc, a, b, alen, blen, len, diff, i,
          ret, result, round, first, hist>>

NoRead == [n |-> 0, hi |-> -1, dup |-> FALSE, oob |-> FALSE]

NoHist ==
    [fast |-> FALSE, blobCalls |-> 0, prefix |-> 0, tailA |-> 0, tailB |-> 0,
     argvReads |-> {}, rdA |-> NoRead, rdB |-> NoRead, overflowed |-> FALSE]

Unset == [kind |-> "unset", val |-> 0]
ResultNull == [kind |-> "null", val |-> 0]
ResultInt(v) == [kind |-> "int", val |-> v]

\* k reads of p[j], ..., p[j + k - 1] where p has n bytes
Touch(r, j, k, n) ==
    [n |-> r.n + k, hi |-> Max2(r.hi, j + k - 1),
     dup |-> r.dup \/ j <= r.hi, oob |-> r.oob \/ j + k > n \/ j < 0]

Init ==
    /\ build \in Builds
    /\ entry \in {"sql", "blob"}
    /\ \E v1, v2 \in Values :
        IF entry = "sql"
        THEN /\ argc \in 0..MaxArgc
             /\ argv = [k \in 1..argc |-> IF k % 2 = 1 THEN v1 ELSE v2]
             /\ a = NullValue /\ b = NullValue
             /\ alen = 0 /\ blen = 0
             /\ pc = "sql_entry"
        ELSE /\ v1 \in Blobs /\ v2 \in Blobs
             /\ argc = 0 /\ argv = <<>>
             /\ a = v1 /\ b = v2
             /\ alen = BlobLen(v1) /\ blen = BlobLen(v2)
             /\ pc = "blob_entry"
    /\ len = 0 /\ diff = 0 /\ i = 0
    /\ ret = <<>>
    /\ result = Unset
    /\ round = 1
    /\ first = <<>>
    /\ hist = [NoHist EXCEPT !.blobCalls = IF entry = "blob" THEN 1 ELSE 0]

\* ------------------------------------------------- the code's expressions
\* a wrong test of the argument count: argc < 2
ArgcBelow2(n) == n < 2

\* line 52: argc != 2
ArgcMismatch(n) == n # 2

\* a wrong null test: !a && !b
BothNull(p, q) == IsNullPtr(p) /\ IsNullPtr(q)

\* line 62: !a || !b
EitherNull(p, q) == IsNullPtr(p) \/ IsNullPtr(q)

\* a wrong fast-path test: alen == 8
FastPathOnlyA(m, n) == m = FastLen

\* line 22: alen == 8 && blen == 8
FastPath(m, n) == m = FastLen /\ n = FastLen

\* lines 24-25: memcpy(&x, p, 8) in the build's byte order
LoadU64(p, order) ==
    U64Of([k \in Limbs |->
            IF order = "little" THEN Deref(p, k - 1) ELSE Deref(p, FastLen - k)])

\* lines 23-26: popcount_u64(x ^ y)
FastDistance(p, q, bld) ==
    popcount_u64(U64Xor(LoadU64(p, bld.order), LoadU64(q, bld.order)), bld.popcnt)

\* line 30: alen < blen ? alen : blen
PrefixLen(m, n) == IF m < n THEN m ELSE n

\* a wrong loop body: a[i] | b[i]
PrefixTermOr(p, q, j) == BuiltinPopcount(BitOr(Deref(p, j), Deref(q, j), 8))

\* line 35: __builtin_popcount((unsigned)a[i] ^ (unsigned)b[i])
PrefixTerm(p, q, j) == BuiltinPopcount(BitXor(Deref(p, j), Deref(q, j), 8))

\* lines 41, 44: __builtin_popcount((unsigned)p[i])
TailTerm(p, j) == BuiltinPopcount(Deref(p, j))

\* line 39: alen > len
TailOfA(m, n, l) == m > l

\* the tail of b forgotten
TailOfBDropped(m, n, l) == FALSE

\* line 42: else if (blen > len)
TailOfB(m, n, l) == ~TailOfA(m, n, l) /\ n > l

\* diff += v on a 32-bit int: the sum, or on overflow its two's complement wrap
AddInt(d, v) ==
    IF v > 0 /\ d > INT_MAX - v
    THEN [over |-> TRUE, val |-> INT_MIN + (v - (INT_MAX - d) - 1)]
    ELSE [over |-> FALSE, val |-> d + v]

\* How many iterations one step of a loop up to bound takes: one; or, inside
\* a run of equal bytes that cannot overflow the int, all but the last
\* SlowSteps of them at once.
Stride(bound, uniform) ==
    IF /\ uniform
       /\ bound - i > SlowSteps
       /\ diff >= 0
       /\ bound - i - SlowSteps <= (INT_MAX - diff) \div 8
    THEN bound - i - SlowSteps
    ELSE 1

\* k iterations of a loop body adding w each time
LoopBody(k, w, readsA, readsB, loop) ==
    LET sum == AddInt(diff, k * w)
    IN  /\ hist' = [hist EXCEPT
                       !.rdA = IF readsA THEN Touch(@, i, k, alen) ELSE @,
                       !.rdB = IF readsB THEN Touch(@, i, k, blen) ELSE @,
                       ![loop] = @ + k,
                       !.overflowed = @ \/ sum.over]
        /\ IF sum.over /\ build.overflow = "trap"
           THEN pc' = "trapped" /\ UNCHANGED <<diff, i>>
           ELSE pc' = pc /\ diff' = sum.val /\ i' = i + k

\* where hamming_distance_blob returns to
Caller == IF entry = "sql" THEN "sql_result" ELSE "done"

\* ----------------------------------------------------- hamming_distance_sql
\* lines 52-55
SqlArgc ==
    /\ pc = "sql_entry"
    /\ IF ArgcMismatch(argc)
       THEN result' = ResultNull /\ pc' = "done"
       ELSE result' = result /\ pc' = "sql_fetch"
    /\ UNCHANGED <<build, entry, argc, argv, a, b, alen, blen, len, diff, i,
                   ret, round, first, hist>>

\* lines 57-60
SqlFetch ==
    /\ pc = "sql_fetch"
    /\ a' = sqlite3_value_blob(argv[1])
    /\ b' = sqlite3_value_blob(argv[2])
    /\ alen' = sqlite3_value_bytes(argv[1])
    /\ blen' = sqlite3_value_bytes(argv[2])
    /\ hist' = [hist EXCEPT !.argvReads = @ \cup {1, 2}]
    /\ pc' = "sql_check"
    /\ UNCHANGED <<build, entry, argc, argv, len, diff, i, ret, result, round, first>>

\* lines 62-65
SqlNull ==
    /\ pc = "sql_check"
    /\ EitherNull(a, b)
    /\ result' = ResultNull
    /\ pc' = "done"
    /\ UNCHANGED <<build, entry, argc, argv, a, b, alen, blen, len, diff, i,
                   ret, round, first, hist>>

\* line 67: the call of hamming_distance_blob
SqlCall ==
    /\ pc = "sql_check"
    /\ ~EitherNull(a, b)
    /\ hist' = [hist EXCEPT !.blobCalls = @ + 1]
    /\ pc' = "blob_entry"
    /\ UNCHANGED <<build, entry, argc, argv, a, b, alen, blen, len, diff, i,
                   ret, result, round, first>>

\* line 68
SqlResult ==
    /\ pc = "sql_result"
    /\ result' = ResultInt(ret[1])
    /\ pc' = "done"
    /\ UNCHANGED <<build, entry, argc, argv, a, b, alen, blen, len, diff, i,
                   ret, round, first, hist>>

\* ---------------------------------------------------- hamming_distance_blob
\* lines 22-27
Fast ==
    /\ pc = "blob_entry"
    /\ FastPath(alen, blen)
    /\ ret' = <<FastDistance(a, b, build)>>
    /\ hist' = [hist EXCEPT !.fast = TRUE,
                            !.rdA = Touch(@, 0, FastLen, alen),
                            !.rdB = Touch(@, 0, FastLen, blen)]
    /\ pc' = Caller
    /\ UNCHANGED <<build, entry, argc, argv, a, b, alen, blen, len, diff, i,
                   result, round, first>>

\* lines 30-31, and int i = 0 of line 34
LoopInit ==
    /\ pc = "blob_entry"
    /\ ~FastPath(alen, blen)
    /\ len' = PrefixLen(alen, blen)
    /\ diff' = 0
    /\ i' = 0
    /\ pc' = "prefix"
    /\ UNCHANGED <<build, entry, argc, argv, a, b, alen, blen, ret, result,
                   round, first, hist>>

\* lines 34-36, loop body
PrefixStep ==
    /\ pc = "prefix"
    /\ i < len
    /\ LET k == Stride(len, i >= Len(a.head) /\ i >= Len(b.head))
       IN  LoopBody(k, PrefixTerm(a, b, i), TRUE, TRUE, "prefix")
    /\ UNCHANGED <<build, entry, argc, argv, a, b, alen, blen, len, ret, result,
                   round, first>>

\* line 34, loop exit; lines 39, 42, and int i = len of lines 40, 43
PrefixExit ==
    /\ pc = "prefix"
    /\ ~(i < len)
    /\ IF TailOfA(alen, blen, len) THEN pc' = "tailA" /\ i' = len
       ELSE IF TailOfB(alen, blen, len) THEN pc' = "tailB" /\ i' = len
       ELSE pc' = "blob_ret" /\ i' = i
    /\ UNCHANGED <<build, entry, argc, argv, a, b, alen, blen, len, diff, ret,
                   result, round, first, hist>>

\* lines 40-41, loop body
TailAStep ==
    /\ pc = "tailA"
    /\ i < alen
    /\ LoopBody(Stride(alen, i >= Len(a.head)), TailTerm(a, i), TRUE, FALSE, "tailA")
    /\ UNCHANGED <<build, entry, argc, argv, a, b, alen, blen, len, ret, result,
                   round, first>>

\* line 40, loop exit
TailAExit ==
    /\ pc = "tailA"
    /\ ~(i < alen)
    /\ pc' = "blob_ret"
    /\ UNCHANGED <<build, entry, argc, argv, a, b, alen, blen, len, diff, i, ret,
                   result, round, first, hist>>

\* lines 43-44, loop body
TailBStep ==
    /\ pc = "tailB"
    /\ i < blen
    /\ LoopBody(Stride(blen, i >= Len(b.head)), TailTerm(b, i), FALSE, TRUE, "tailB")
    /\ UNCHANGED <<build, entry, argc, argv, a, b, alen, blen, len, ret, result,
                   round, first>>

\* line 43, loop exit
TailBExit ==
    /\ pc = "tailB"
    /\ ~(i < blen)
    /\ pc' = "blob_ret"
    /\ UNCHANGED <<build, entry, argc, argv, a, b, alen, blen, len, diff, i, ret,
                   result, round, first, hist>>

\* line 47
BlobReturn ==
    /\ pc = "blob_ret"
    /\ ret' = <<diff>>
    /\ pc' = Caller
    /\ UNCHANGED <<build, entry, argc, argv, a, b, alen, blen, len, diff, i,
                   result, round, first, hist>>

\* hamming_distance_blob called again with the operands exchanged
Swap ==
    /\ pc = "done"
    /\ entry = "blob"
    /\ round = 1
    /\ round' = 2
    /\ first' = ret
    /\ a' = b /\ b' = a
    /\ alen' = blen /\ blen' = alen
    /\ len' = 0 /\ diff' = 0 /\ i' = 0
    /\ ret' = <<>>
    /\ hist' = [NoHist EXCEPT !.blobCalls = 1]
    /\ pc' = "blob_entry"
    /\ UNCHANGED <<build, entry, argc, argv, result>>

Next ==
    \/ SqlArgc \/ SqlFetch \/ SqlNull \/ SqlCall \/ SqlResult
    \/ Fast \/ LoopInit
    \/ PrefixStep \/ PrefixExit
    \/ TailAStep \/ TailAExit
    \/ TailBStep \/ TailBExit
    \/ BlobReturn
    \/ Swap

Spec == Init /\ [][Next]_vars

\* ============================================================== properties
\* The number of 1-bits of A xor B, the shorter zero-extended at its high-index
\* end, as hi * 65536 + lo (it can exceed the model checker's integers).
ExtByte(v, j) == IF j < BlobLen(v) THEN BlobByte(v, j) ELSE 0

Weight(A, B, j) == BuiltinPopcount(BitXor(ExtByte(A, j), ExtByte(B, j), 8))

MaxLen(A, B) == Max2(BlobLen(A), BlobLen(B))

\* the indices where the byte of A or of B can change
Pts(A, B) == {0, Len(A.head), Len(B.head), BlobLen(A), BlobLen(B), MaxLen(A, B)}

NextPt(A, B, j) == CHOOSE q \in Pts(A, B) : q > j /\ \A r \in Pts(A, B) : r > j => q <= r

RECURSIVE SegSum(_, _, _, _)
SegSum(A, B, S, high) ==
    IF S = {} THEN 0
    ELSE LET j == CHOOSE q \in S : TRUE
             n == NextPt(A, B, j) - j
         IN  (IF high THEN n \div 65536 ELSE n % 65536) * Weight(A, B, j)
             + SegSum(A, B, S \ {j}, high)

Starts(A, B) == {j \in Pts(A, B) : j < MaxLen(A, B)}

\* r is the number of 1-bits of A xor B
IsXorPopcount(r, A, B) ==
    LET hi == SegSum(A, B, Starts(A, B), TRUE)
        lo == SegSum(A, B, Starts(A, B), FALSE)
    IN  /\ r >= 0
        /\ r \div 65536 = hi + (lo \div 65536)
        /\ r % 65536 = lo % 65536

\* v <= 8 * n, without forming 8 * n
AtMost8Times(v, n) == (v \div 8) + (IF v % 8 > 0 THEN 1 ELSE 0) <= n

RECURSIVE ByteLoopSum(_, _, _)
\* what the loop of lines 34-36 adds up over the indices [0, n)
ByteLoopSum(p, q, n) ==
    IF n = 0 THEN 0 ELSE PrefixTerm(p, q, n - 1) + ByteLoopSum(p, q, n - 1)

Returned == ret # <<>>
InBlob == pc \in {"blob_entry", "prefix", "tailA", "tailB", "blob_ret"}
TwoPresentBlobs == entry = "sql" /\ argc = 2 /\ argv[1].type = "blob" /\ argv[2].type = "blob"

\* C1: hamming_distance_blob(A, alen, B, blen) returns exactly the number of
\* 1-bits of A xor B, the shorter zero-extended at its high-index end, for
\* all lengths alen, blen >= 0.
C1_ReturnsXorPopcount == Returned => IsXorPopcount(ret[1], a, b)

\* C1, the part that holds: the value returned is that number whenever no
\* addition to diff overflowed the int.
C1_XorPopcountUnlessOverflow ==
    Returned /\ ~hist.overflowed => IsXorPopcount(ret[1], a, b)

\* C2: called with two arguments of which one is NULL, hamming_distance_sql
\* sets a null result, never an integer, and does not call
\* hamming_distance_blob.
C2_NullPropagates ==
    entry = "sql" /\ argc = 2 /\ (argv[1].type = "null" \/ argv[2].type = "null")
    => /\ result.kind # "int"
       /\ hist.blobCalls = 0
       /\ ~InBlob /\ pc # "trapped"
       /\ (pc = "done" => result = ResultNull)

C2_Witness ==
    /\ entry = "sql" /\ argc = 2 /\ pc = "done"
    /\ argv[1].type = "null" /\ argv[2].type = "blob" /\ BlobLen(argv[2]) = FastLen
    /\ result = ResultNull

\* C3: called with two present blobs of which one or both are empty,
\* hamming_distance_sql sets an integer result: the popcount of the other
\* blob (0 when both are empty).
C3_EmptyGivesInteger ==
    TwoPresentBlobs /\ (BlobLen(argv[1]) = 0 \/ BlobLen(argv[2]) = 0) /\ pc = "done"
    => result.kind = "int" /\ IsXorPopcount(result.val, argv[1], argv[2])

\* C4: hamming_distance_blob(A, alen, B, blen) = hamming_distance_blob(B, blen,
\* A, alen): the second call, with the operands exchanged, ends as the first
\* did and returns the same value.
C4_Symmetric ==
    round = 2 => /\ pc # "trapped"
                 /\ (Returned => ret = first)

C4_Witness ==
    /\ round = 2 /\ Returned /\ ret = first
    /\ alen = FastLen /\ blen # FastLen /\ blen > 0
    /\ ret[1] > 0

\* C5: hamming_distance_blob(A, n, A, n) = 0 for every A, and the running
\* total stays 0.
C5_SelfDistanceZero ==
    entry = "blob" /\ a = b => diff = 0 /\ (Returned => ret[1] = 0)

C5_Witness ==
    /\ entry = "blob" /\ a = b /\ Returned /\ ret[1] = 0
    /\ ~hist.fast /\ alen > FastLen /\ a.fill = 255

\* C6: the running total diff, and the value returned, stay in
\* [0, 8 * max(alen, blen)] for all lengths alen, blen >= 0.
C6_TotalInRange ==
    /\ diff >= 0 /\ AtMost8Times(diff, Max2(alen, blen))
    /\ (Returned => ret[1] >= 0 /\ AtMost8Times(ret[1], Max2(alen, blen)))

\* C7: called with an argument count other than 2, hamming_distance_sql sets a
\* null result and returns; it reads no element of argv and does not call
\* hamming_distance_blob.
C7_WrongArgc ==
    entry = "sql" /\ argc # 2
    => /\ pc \in {"sql_entry", "done"}
       /\ hist.argvReads = {}
       /\ hist.blobCalls = 0
       /\ (pc = "done" => result = ResultNull)
       /\ (pc = "sql_entry" => result = Unset)

C7_Witness ==
    /\ entry = "sql" /\ argc = 3 /\ pc = "done" /\ result = ResultNull
    /\ argv[1].type = "blob" /\ argv[2].type = "blob"

\* C8: for two 8-byte sequences the fast path (64-bit loads in either byte
\* order, xor, popcount_u64 in either of its branches) returns what the byte
\* loop adds up over the indices [0, 8).
C8_FastEqualsByteLoop ==
    hist.fast /\ Returned => ret[1] = ByteLoopSum(a, b, FastLen)

C8_Witness ==
    /\ hist.fast /\ Returned
    /\ build.popcnt = "swar" /\ build.order = "big"
    /\ Len(a.head) = 1 /\ a.fill # b.fill
    /\ ret[1] = ByteLoopSum(a, b, FastLen) /\ ret[1] \notin {0, 64}

\* C9: the fast path is taken iff alen = 8 and blen = 8; when it is taken no
\* loop iteration runs; otherwise the byte loop runs over the
\* min(alen, blen) prefix and the fast path is not taken.
C9_PathSelection ==
    /\ hist.fast => /\ alen = FastLen /\ blen = FastLen
                    /\ hist.prefix = 0 /\ hist.tailA = 0 /\ hist.tailB = 0
                    /\ pc \notin {"prefix", "tailA", "tailB", "blob_ret"}
    /\ pc \in {"prefix", "tailA", "tailB", "blob_ret"}
        => /\ ~(alen = FastLen /\ blen = FastLen)
           /\ ~hist.fast
           /\ len = Min2(alen, blen)
           /\ hist.prefix <= len
    /\ Returned => /\ hist.fast <=> (alen = FastLen /\ blen = FastLen)
                   /\ ~hist.fast => hist.prefix = Min2(alen, blen)

C9_Witness ==
    /\ Returned /\ ~hist.fast
    /\ alen = FastLen /\ blen = FastLen + 1
    /\ hist.prefix = FastLen

\* what C10 says of the loops: the iterations so far, the indices read
LoopsInBounds ==
    /\ hist.prefix <= Min2(alen, blen)
    /\ hist.tailA = 0 \/ hist.tailB = 0
    /\ hist.tailA > 0 => alen > blen
    /\ hist.tailB > 0 => blen > alen
    /\ ~hist.rdA.dup /\ ~hist.rdA.oob /\ hist.rdA.n <= alen
    /\ ~hist.rdB.dup /\ ~hist.rdB.oob /\ hist.rdB.n <= blen

ExactIterations ==
    Returned /\ ~hist.fast
    => /\ hist.prefix = Min2(alen, blen)
       /\ hist.prefix + hist.tailA + hist.tailB = Max2(alen, blen)
       /\ hist.rdA.n = alen /\ hist.rdB.n = blen

\* C10: every call of hamming_distance_blob with alen, blen >= 0 returns; on
\* the general path it has run exactly max(alen, blen) iterations,
\* min(alen, blen) of them in the prefix loop, at most one tail loop ran, and
\* each index below a sequence's length was read at most once and none beyond.
C10_ReturnsAfterMaxIterations ==
    /\ pc # "trapped"
    /\ LoopsInBounds
    /\ ExactIterations

\* C10, the part that holds: the loops as such, in every call.
C10_LoopStructure == LoopsInBounds /\ ExactIterations

====
